---- MODULE Spec2Model ----
(***************************************************************************)
(* A model of dc42_build_bootable_disk.py: the builder of bootable Apple   *)
(* Lisa .dc42 disk images.                                                 *)
(*                                                                         *)
(* Byte strings.  The program's buffers are up to 0xd4c00 bytes long and   *)
(* almost everywhere zero, so a byte string is modelled as a record        *)
(*   [len |-> its length, nz |-> its nonzero bytes, keyed by offset]       *)
(* with offsets counted from 0 as in Python.  Two strings are equal iff    *)
(* their records are equal.  Short strings (tags, lines of the tag file,   *)
(* signatures) are plain sequences of byte values.                         *)
(*                                                                         *)
(* Numbers.  TLC's integers are 32 bits wide and signed, so the 32-bit     *)
(* accumulator of the .dc42 checksum is kept as two 16-bit halves.         *)
(***************************************************************************)
EXTENDS Integers, Sequences, FiniteSets, TLC

VARIABLES
  pc,                \* where the run (of main, or of a function on its own) is
  FLAGS,             \* main's argument: floppy, bootloader, program, tags_file
  bootloader_data,   \* main's local
  program_data,      \* main's local
  program_size,      \* main's local
  program_checksum,  \* main's local
  data,              \* main's local
  tags,              \* main's local
  asm,               \* the frame of _assemble_tags: its program_size and tags
  warned,            \* the warnings issued so far (warnings.warn)
  raised,            \* the exception that ended the run, or "none"
  written,           \* what FLAGS.output.write has been given so far
  stages,            \* history: the stages completed so far, in order
  arg,               \* a function called on its own: its arguments
  res                \* a function called on its own: its result

vars == <<pc, FLAGS, bootloader_data, program_data, program_size,
          program_checksum, data, tags, asm, warned, raised, written,
          stages, arg, res>>

mainvars == <<FLAGS, bootloader_data, program_data, program_size,
              program_checksum, data, tags, asm, warned, raised, written,
              stages>>

-----------------------------------------------------------------------------
(* Byte strings *)

Min(a, b) == IF a < b THEN a ELSE b

Max(a, b) == IF a > b THEN a ELSE b

EmptyMap == [i \in {} |-> 0]

\* '\x00' * k: the empty string when k <= 0.
Zeros(k) == [len |-> Max(k, 0), nz |-> EmptyMap]

NoBytes == Zeros(0)

\* The byte string whose bytes are the sequence s.
FromSeq(s) ==
  [len |-> Len(s),
   nz  |-> [i \in {j \in 0..(Len(s) - 1) : s[j + 1] # 0} |-> s[i + 1]]]

\* b[i] for 0 <= i < len(b).
At(b, i) == IF i \in DOMAIN b.nz THEN b.nz[i] ELSE 0

\* a + b
Cat(a, b) ==
  [len |-> a.len + b.len,
   nz  |-> [i \in DOMAIN a.nz \cup {j + a.len : j \in DOMAIN b.nz} |->
              IF i < a.len THEN a.nz[i] ELSE b.nz[i - a.len]]]

\* b[lo:hi] for lo, hi >= 0: Python clamps both ends to len(b).
Slice(b, lo, hi) ==
  LET start == Min(lo, b.len)
      stop  == Min(hi, b.len)
      keep  == {j \in DOMAIN b.nz : start <= j /\ j < stop}
  IN  [len |-> Max(stop - start, 0),
       nz  |-> [i \in {j - start : j \in keep} |-> b.nz[i + start]]]

\* ''.join(l) for a list l of byte strings, joined pairwise, halving the list.
RECURSIVE JoinRange(_, _, _)
JoinRange(l, lo, hi) ==
  IF lo > hi THEN NoBytes
  ELSE IF lo = hi THEN l[lo]
  ELSE LET mid == (lo + hi) \div 2
       IN  Cat(JoinRange(l, lo, mid), JoinRange(l, mid + 1, hi))

Join(l) == JoinRange(l, 1, Len(l))

-----------------------------------------------------------------------------
(* _read_binary_data *)

\* fp.read(n) on a freshly opened file whose content is fp.
FileRead(fp, n) == Slice(fp, 0, n)

\* _read_binary_data turning away a file of exactly size bytes.
read_binary_data_ge(fp, size) ==
  LET d == FileRead(fp, size + 1)
  IN  IF d.len = 0 THEN [raised |-> "IOError:empty", data |-> NoBytes, size |-> 0]
      ELSE IF d.len >= size
        THEN [raised |-> "IOError:oversize", data |-> NoBytes, size |-> 0]
      ELSE [raised |-> "none", data |-> Cat(d, Zeros(size - d.len)),
            size |-> d.len]

\* _read_binary_data without its test for an empty file.
read_binary_data_noempty(fp, size) ==
  LET d == FileRead(fp, size + 1)
  IN  IF d.len > size
        THEN [raised |-> "IOError:oversize", data |-> NoBytes, size |-> 0]
      ELSE [raised |-> "none", data |-> Cat(d, Zeros(size - d.len)),
            size |-> d.len]

\* The result is [raised, data, size]: raised is "none" when the function
\* returns (data, size), and names the IOError otherwise.
read_binary_data(fp, size) ==
  LET d == FileRead(fp, size + 1)
  IN  IF d.len = 0 THEN [raised |-> "IOError:empty", data |-> NoBytes, size |-> 0]
      ELSE IF d.len > size
        THEN [raised |-> "IOError:oversize", data |-> NoBytes, size |-> 0]
      ELSE [raised |-> "none", data |-> Cat(d, Zeros(size - d.len)),
            size |-> d.len]

-----------------------------------------------------------------------------
(* Constants *)

Floppies == {"sony_400k", "sony_800k", "twiggy"}

\* 0x64000, 0xc8000, 0xd4c00
DATA_SIZE == [sony_400k |-> 409600, sony_800k |-> 819200, twiggy |-> 871424]

\* 0x2580, 0x4b00, 0x4fc8
TAG_SIZE == [sony_400k |-> 9600, sony_800k |-> 19200, twiggy |-> 20424]

DISK_TYPE == [sony_400k |-> <<0>>, sony_800k |-> <<1>>, twiggy |-> <<84>>]

FORMAT_BYTE == [sony_400k |-> <<2>>, sony_800k |-> <<34>>, twiggy |-> <<1>>]

DC42_MAGIC == <<1, 0>>

BOOTLOADER_SIGNATURES ==
  [sony_400k |-> {<<79, 7>>, <<127, 255, 0, 0>>, <<15, 31, 47, 63, 255>>},
   sony_800k |-> {<<79, 7>>, <<127, 254, 0, 0>>, <<15, 31, 47, 63, 255>>},
   twiggy    |-> {<<45, 14>>, <<127, 254, 0, 0>>,
                  <<3, 10, 16, 22, 28, 34, 41, 255>>}]

\* The table with the two Sony rows exchanged.
BOOTLOADER_COMPATIBILITIES_swapped ==
  [sony_400k |-> {"sony_400k"},
   sony_800k |-> {"sony_400k", "sony_800k"},
   twiggy    |-> {"twiggy"}]

BOOTLOADER_COMPATIBILITIES ==
  [sony_400k |-> {"sony_400k", "sony_800k"},
   sony_800k |-> {"sony_800k"},
   twiggy    |-> {"twiggy"}]

-----------------------------------------------------------------------------
(* _compute_dc42_checksum.  The 32-bit csum is [hi |-> its upper 16 bits,  *)
(* lo |-> its lower 16 bits].                                              *)

\* struct.unpack('>H', data[i:i+2])[0]
Word(d, i) == At(d, i) * 256 + At(d, i + 1)

\* addl_rorl without its addition: the rotation alone.
addl_rorl_noadd(uint, csum) ==
  LET rbit == csum.lo % 2
  IN  [hi |-> csum.hi \div 2 + rbit * 32768,
       lo |-> csum.lo \div 2 + (csum.hi % 2) * 32768]

addl_rorl(uint, csum) ==
  LET sum  == csum.lo + uint                           \* csum += uint
      hi1  == (csum.hi + sum \div 65536) % 65536       \* csum &= 0xffffffff
      lo1  == sum % 65536
      rbit == lo1 % 2                                  \* rbit = csum & 0x1
      hi2  == hi1 \div 2                               \* csum >>= 1
      lo2  == lo1 \div 2 + (hi1 % 2) * 32768
  IN  [hi |-> hi2 + rbit * 32768, lo |-> lo2]          \* csum += rbit << 31

\* The loop over the words at offsets 2*lo, ..., 2*(hi-1), in that order,
\* from checksum csum.  The range is halved so that the evaluation stays
\* shallow; the test of the first half's checksum only makes TLC compute it
\* before it starts on the second half.
RECURSIVE dc42_loop(_, _, _, _)
dc42_loop(d, lo, hi, csum) ==
  IF lo >= hi THEN csum
  ELSE IF hi = lo + 1 THEN addl_rorl(Word(d, 2 * lo), csum)
  ELSE LET mid   == (lo + hi) \div 2
           first == dc42_loop(d, lo, mid, csum)
       IN  IF first.hi >= 0 THEN dc42_loop(d, mid, hi, first) ELSE first

\* struct.pack('>I', checksum)
PackI(csum) ==
  <<csum.hi \div 256, csum.hi % 256, csum.lo \div 256, csum.lo % 256>>

\* [raised, value]: struct.unpack raises on the one-byte tail of a string of
\* odd length.
compute_dc42_checksum(d) ==
  IF d.len % 2 = 1 THEN [raised |-> "struct.error", value |-> <<>>]
  ELSE [raised |-> "none",
        value  |-> PackI(dc42_loop(d, 0, d.len \div 2, [hi |-> 0, lo |-> 0]))]

-----------------------------------------------------------------------------
(* _compute_program_checksum *)

addw_rolw(word, csum) ==
  LET c1 == (csum + word) % 65536     \* csum += word; csum &= 0xffff
      c2 == c1 * 2                    \* csum <<= 1
      c3 == c2 + c2 \div 65536        \* csum += csum >> 16
  IN  c3 % 65536                      \* csum &= 0xffff

\* The loop over the words at offsets 2*lo, ..., 2*(hi-1), as dc42_loop.
RECURSIVE program_loop(_, _, _, _)
program_loop(d, lo, hi, csum) ==
  IF lo >= hi THEN csum
  ELSE IF hi = lo + 1 THEN addw_rolw(Word(d, 2 * lo), csum)
  ELSE LET mid   == (lo + hi) \div 2
           first == program_loop(d, lo, mid, csum)
       IN  IF first >= 0 THEN program_loop(d, mid, hi, first) ELSE first

\* num_bytes rounding down instead of up.
num_bytes_rounddown(size) == size - (size % 512)

\* (program_size & ~0x1ff) + (0x200 if program_size & 0x1ff else 0)
num_bytes(size) ==
  (size - (size % 512)) + (IF size % 512 # 0 THEN 512 ELSE 0)

\* struct.pack('>H', checksum)
PackH(csum) == <<csum \div 256, csum % 256>>

\* [raised, value]: struct.unpack raises when a word lies beyond the data.
compute_program_checksum(d, size) ==
  IF num_bytes(size) > d.len THEN [raised |-> "struct.error", value |-> <<>>]
  ELSE [raised |-> "none",
        value  |-> PackH(program_loop(d, 0, num_bytes(size) \div 2, 0))]

-----------------------------------------------------------------------------
(* The tag file.  FLAGS.tags_file is [kind, lines, pos]:                   *)
(*   kind "None":        no tags file was named;                           *)
(*   kind "DefaultTags": the stand-in object; pos is its _sectors_read;    *)
(*   kind "file":        a text file; lines are its lines, each as         *)
(*                       readline returns it (with its line ending), and   *)
(*                       pos counts the lines read so far.                 *)
(* Characters are their ASCII codes.                                       *)

RECURSIVE DecimalDigits(_)
DecimalDigits(n) ==
  IF n < 10 THEN <<48 + n>>
  ELSE DecimalDigits(n \div 10) \o <<48 + (n % 10)>>

\* '{}'.format(0.5 * n): '0.5', '1.0', '1.5', ...
FormatHalves(n) ==
  DecimalDigits(n \div 2) \o <<46>> \o (IF n % 2 = 1 THEN <<53>> ELSE <<48>>)

\* DefaultTags.readline and file.readline: [line, fp].
readline(fp) ==
  IF fp.kind = "DefaultTags"
    THEN [line |-> <<82, 69, 65, 68, 32>> \o FormatHalves(fp.pos + 1)
                     \o <<75, 10>>,
          fp   |-> [fp EXCEPT !.pos = fp.pos + 1]]
  ELSE IF fp.pos < Len(fp.lines)
    THEN [line |-> fp.lines[fp.pos + 1], fp |-> [fp EXCEPT !.pos = fp.pos + 1]]
  ELSE [line |-> <<>>, fp |-> fp]

\* tag.rstrip('\r\n')
RECURSIVE rstrip_crlf(_)
rstrip_crlf(s) ==
  IF Len(s) > 0 /\ s[Len(s)] \in {13, 10}
    THEN rstrip_crlf(SubSeq(s, 1, Len(s) - 1))
  ELSE s

\* The character class [0-9A-Z ./-?]: the digits, the capitals, the space,
\* the full stop, and the range from '/' (47) to '?' (63).
InTagClass(c) ==
  c \in 48..57 \/ c \in 65..90 \/ c = 32 \/ c = 46 \/ c \in 47..63

\* re.match('[0-9A-Z ./-?]*$', tag): some prefix of class characters ends
\* where $ matches, at the end or before a newline that ends the string.
tag_regex_matches(tag) ==
  \E p \in 0..Len(tag) :
    /\ \A k \in 1..p : InTagClass(tag[k])
    /\ \/ p = Len(tag)
       \/ p = Len(tag) - 1 /\ tag[Len(tag)] = 10

\* _read_next_tag without its test for the end of the file.
read_next_tag_noeof(fp) ==
  LET r   == readline(fp)
      tag == rstrip_crlf(r.line)
      cut == IF Len(tag) > 12 THEN SubSeq(tag, 1, 12) ELSE tag
  IN  IF ~tag_regex_matches(tag)
        THEN [raised |-> "RuntimeError:chars", tag |-> <<>>, fp |-> r.fp,
              clipped |-> FALSE]
      ELSE [raised |-> "none",
            tag |-> cut \o [i \in 1..(12 - Len(cut)) |-> 32],
            fp |-> r.fp, clipped |-> Len(tag) > 12]

\* [raised, tag, fp, clipped]: the exception or the 12-byte tag, the file
\* after the read, and whether the clipping warning was issued.
read_next_tag(fp) ==
  LET r   == readline(fp)
      tag == rstrip_crlf(r.line)
      cut == IF Len(tag) > 12 THEN SubSeq(tag, 1, 12) ELSE tag
  IN  IF r.line = <<>>
        THEN [raised |-> "IOError:tags", tag |-> <<>>, fp |-> r.fp,
              clipped |-> FALSE]
      ELSE IF ~tag_regex_matches(tag)
        THEN [raised |-> "RuntimeError:chars", tag |-> <<>>, fp |-> r.fp,
              clipped |-> FALSE]
      ELSE [raised |-> "none",
            tag |-> cut \o [i \in 1..(12 - Len(cut)) |-> 32],
            fp |-> r.fp, clipped |-> Len(tag) > 12]

\* 'Booo\xaa\xaaoooot!'
BootTag == <<66, 111, 111, 111, 170, 170, 111, 111, 111, 111, 116, 33>>

\* 'Last out!\x00'
LastOut == <<76, 97, 115, 116, 32, 111, 117, 116, 33, 0>>

\* tagdata + ('\x00' * (tagdata_size - len(tagdata))) for the list l of tags.
\* The tag data without the padding.
pad_tagdata_nopad(l, tagdata_size) ==
  Join([i \in 1..Len(l) |-> FromSeq(l[i])])

pad_tagdata(l, tagdata_size) ==
  LET tagdata == Join([i \in 1..Len(l) |-> FromSeq(l[i])])
  IN  Cat(tagdata, Zeros(tagdata_size - tagdata.len))

-----------------------------------------------------------------------------
(* _permute_data_and_tags_for_sony_800k *)

Rep(n, x) == [i \in 1..n |-> x]

\* 0x10*[0xC] + 0x10*[0xB] + 0x10*[0xA] + 0x10*[0x9] + 0x10*[0x8]
track_sizes ==
  Rep(16, 12) \o Rep(16, 11) \o Rep(16, 10) \o Rep(16, 9) \o Rep(16, 8)

\* sum(l[lo-1:hi]), adding the two halves of the range.
RECURSIVE SumRange(_, _, _)
SumRange(l, lo, hi) ==
  IF lo > hi THEN 0
  ELSE IF lo = hi THEN l[lo]
  ELSE LET mid == (lo + hi) \div 2
       IN  SumRange(l, lo, mid) + SumRange(l, mid + 1, hi)

\* cumsum = lambda l: [sum(l[:n+1]) for n in range(len(l))]
cumsum(l) == [n \in 1..Len(l) |-> SumRange(l, 1, n)]

track_data_bounds ==
  cumsum(<<0>> \o [t \in 1..Len(track_sizes) |-> 512 * track_sizes[t]])

track_data_begins == SubSeq(track_data_bounds, 1, Len(track_data_bounds) - 1)

track_data_ends == SubSeq(track_data_bounds, 2, Len(track_data_bounds))

track_tags_bounds ==
  cumsum(<<0>> \o [t \in 1..Len(track_sizes) |-> 12 * track_sizes[t]])

track_tags_begins == SubSeq(track_tags_bounds, 1, Len(track_tags_bounds) - 1)

track_tags_ends == SubSeq(track_tags_bounds, 2, Len(track_tags_bounds))

\* The bounds the two loops compute: for each track, (s1_track_begin,
\* s1_track_end) and then (s2_track_begin, s2_track_end), side 2 lying
\* side2 bytes further on.
\* The bounds with side 2 of each track before side 1.
riffle_bounds_side2_first(begins, ends, side2) ==
  [k \in 1..(2 * Min(Len(begins), Len(ends))) |->
     LET t == (k + 1) \div 2
     IN  IF k % 2 = 0 THEN <<begins[t], ends[t]>>
         ELSE <<begins[t] + side2, ends[t] + side2>>]

riffle_bounds(begins, ends, side2) ==
  [k \in 1..(2 * Min(Len(begins), Len(ends))) |->
     LET t == (k + 1) \div 2
     IN  IF k % 2 = 1 THEN <<begins[t], ends[t]>>
         ELSE <<begins[t] + side2, ends[t] + side2>>]

\* 0x64000 and 0x2580 are the offsets of side 2.
data_bounds == riffle_bounds(track_data_begins, track_data_ends, 409600)

\* The bounds of the tag loop with side 2 of each track before side 1.
tags_bounds_side2_first ==
  riffle_bounds_side2_first(track_tags_begins, track_tags_ends, 9600)

tags_bounds == riffle_bounds(track_tags_begins, track_tags_ends, 9600)

\* The list the appends build: the slices of d at the bounds, in order.
slices(d, bounds) ==
  [k \in 1..Len(bounds) |-> Slice(d, bounds[k][1], bounds[k][2])]

\* [data, tags]
permute_data_and_tags_for_sony_800k(d, t) ==
  [data |-> Join(slices(d, data_bounds)),
   tags |-> Join(slices(t, tags_bounds))]

-----------------------------------------------------------------------------
(* _check_bootloader_compatibility *)

\* signature in bootloader_data
Contains(signature, d) ==
  \E i \in 0..(d.len - Len(signature)) :
    \A k \in 1..Len(signature) : At(d, i + k - 1) = signature[k]

all_bootloader_media(d) ==
  {m \in DOMAIN BOOTLOADER_SIGNATURES :
     \A signature \in BOOTLOADER_SIGNATURES[m] : Contains(signature, d)}

UnknownWarning == [msg |-> "unknown type", media |-> "", floppy |-> ""]

MismatchWarning(m, f) ==
  [msg |-> "may not be suitable", media |-> m, floppy |-> f]

ClippedWarning == [msg |-> "clipped", media |-> "", floppy |-> ""]

\* The check taking any one of several matching variants as the match.
check_bootloader_compatibility_first(d, floppy) ==
  LET all == all_bootloader_media(d)
  IN  IF all = {} THEN <<UnknownWarning>>
      ELSE LET bootloader_media == CHOOSE m \in all : TRUE
           IN  IF bootloader_media \notin BOOTLOADER_COMPATIBILITIES[floppy]
                 THEN <<MismatchWarning(bootloader_media, floppy)>>
               ELSE <<>>

\* The warnings the check issues; it returns normally in every case.
check_bootloader_compatibility(d, floppy) ==
  LET all == all_bootloader_media(d)
  IN  IF Cardinality(all) # 1 THEN <<UnknownWarning>>
      ELSE LET bootloader_media == CHOOSE m \in all : TRUE
           IN  IF bootloader_media \notin BOOTLOADER_COMPATIBILITIES[floppy]
                 THEN <<MismatchWarning(bootloader_media, floppy)>>
               ELSE <<>>

-----------------------------------------------------------------------------
(* main, one action per stage.  _assemble_tags runs as three actions: its  *)
(* entry, one turn of its while loop, and its return.                      *)

DefaultTags == [kind |-> "DefaultTags", lines |-> <<>>, pos |-> 0]

\* Lines 87-91.
MainLoadBootloader ==
  /\ pc = "load_bootloader"
  /\ LET r == read_binary_data(FLAGS.bootloader, 512)
     IN  /\ FLAGS' = IF FLAGS.tags_file.kind = "None"
                       THEN [FLAGS EXCEPT !.tags_file = DefaultTags]
                     ELSE FLAGS
         /\ IF r.raised # "none"
              THEN /\ raised' = r.raised
                   /\ pc' = "raised"
                   /\ UNCHANGED <<bootloader_data, stages>>
            ELSE /\ bootloader_data' = r.data
                 /\ pc' = "check_compat"
                 /\ stages' = Append(stages, "load_bootloader")
                 /\ UNCHANGED raised
  /\ UNCHANGED <<program_data, program_size, program_checksum, data, tags,
                 asm, warned, written, arg, res>>

\* Lines 93-94.
MainCheckCompat ==
  /\ pc = "check_compat"
  /\ warned' = warned \o
                 check_bootloader_compatibility(bootloader_data, FLAGS.floppy)
  /\ pc' = "load_program"
  /\ stages' = Append(stages, "check_compat")
  /\ UNCHANGED <<FLAGS, bootloader_data, program_data, program_size,
                 program_checksum, data, tags, asm, raised, written, arg, res>>

\* Lines 96-99.
MainLoadProgram ==
  /\ pc = "load_program"
  /\ LET r == read_binary_data(FLAGS.program, DATA_SIZE[FLAGS.floppy] - 512)
     IN  IF r.raised # "none"
           THEN /\ raised' = r.raised
                /\ pc' = "raised"
                /\ UNCHANGED <<program_data, program_size, stages>>
         ELSE /\ program_data' = r.data
              /\ program_size' = r.size
              /\ pc' = "program_checksum"
              /\ stages' = Append(stages, "load_program")
              /\ UNCHANGED raised
  /\ UNCHANGED <<FLAGS, bootloader_data, program_checksum, data, tags, asm,
                 warned, written, arg, res>>

\* Lines 101-102.
MainProgramChecksum ==
  /\ pc = "program_checksum"
  /\ LET r == compute_program_checksum(program_data, program_size)
     IN  IF r.raised # "none"
           THEN /\ raised' = r.raised
                /\ pc' = "raised"
                /\ UNCHANGED <<program_checksum, stages>>
         ELSE /\ program_checksum' = r.value
              /\ pc' = "concat"
              /\ stages' = Append(stages, "program_checksum")
              /\ UNCHANGED raised
  /\ UNCHANGED <<FLAGS, bootloader_data, program_data, program_size, data,
                 tags, asm, warned, written, arg, res>>

\* Lines 104-105.
MainConcat ==
  /\ pc = "concat"
  /\ data' = Cat(bootloader_data, program_data)
  /\ pc' = "assemble_tags"
  /\ stages' = Append(stages, "concat")
  /\ UNCHANGED <<FLAGS, bootloader_data, program_data, program_size,
                 program_checksum, tags, asm, warned, raised, written, arg,
                 res>>

\* The loop going on for a remainder of exactly 0x200 too.
loop_continues_ge(size) == size >= 512

\* while program_size > 0x200
loop_continues(size) == size > 512

\* Lines 108-109 (the call) and 204.
AssembleTagsBegin ==
  /\ pc = "assemble_tags"
  /\ asm' = [program_size |-> program_size, tags |-> <<BootTag>>]
  /\ pc' = "assemble_loop"
  /\ UNCHANGED <<FLAGS, bootloader_data, program_data, program_size,
                 program_checksum, data, tags, warned, raised, written,
                 stages, arg, res>>

\* Lines 208-210: one turn of the loop.
AssembleTagsLoop ==
  /\ pc = "assemble_loop"
  /\ loop_continues(asm.program_size)
  /\ LET r == read_next_tag(FLAGS.tags_file)
     IN  /\ FLAGS' = [FLAGS EXCEPT !.tags_file = r.fp]
         /\ IF r.raised # "none"
              THEN /\ raised' = r.raised
                   /\ pc' = "raised"
                   /\ asm' = [asm EXCEPT !.program_size = @ - 512]
                   /\ UNCHANGED warned
            ELSE /\ asm' = [program_size |-> asm.program_size - 512,
                            tags |-> Append(asm.tags, r.tag)]
                 /\ warned' = IF r.clipped THEN Append(warned, ClippedWarning)
                              ELSE warned
                 /\ UNCHANGED <<pc, raised>>
  /\ UNCHANGED <<bootloader_data, program_data, program_size,
                 program_checksum, data, tags, written, stages, arg, res>>

\* Lines 214-218, and the assignment of the result in line 108.
AssembleTagsEnd ==
  /\ pc = "assemble_loop"
  /\ ~loop_continues(asm.program_size)
  /\ tags' = pad_tagdata(Append(asm.tags, LastOut \o program_checksum),
                         TAG_SIZE[FLAGS.floppy])
  /\ asm' = [asm EXCEPT !.tags = Append(asm.tags, LastOut \o program_checksum)]
  /\ pc' = "permute"
  /\ stages' = Append(stages, "assemble_tags")
  /\ UNCHANGED <<FLAGS, bootloader_data, program_data, program_size,
                 program_checksum, data, warned, raised, written, arg, res>>

\* What main does with data and tags in lines 111-113: [data, tags].
main_permute(floppy, d, t) ==
  IF floppy = "sony_800k" THEN permute_data_and_tags_for_sony_800k(d, t)
  ELSE [data |-> d, tags |-> t]

\* Lines 111-113.
MainPermute ==
  /\ pc = "permute"
  /\ LET r == main_permute(FLAGS.floppy, data, tags)
     IN  /\ data' = r.data
         /\ tags' = r.tags
  /\ pc' = "write"
  /\ stages' = Append(stages, "permute")
  /\ UNCHANGED <<FLAGS, bootloader_data, program_data, program_size,
                 program_checksum, asm, warned, raised, written, arg, res>>

\* struct.pack('64p', '-not a Macintosh disk-'): the length byte, the 22
\* characters, and NUL padding to 64 bytes.
ImageName ==
  Cat(FromSeq(<<22, 45, 110, 111, 116, 32, 97, 32, 77, 97, 99, 105, 110, 116,
                111, 115, 104, 32, 100, 105, 115, 107, 45>>), Zeros(41))

\* struct.pack('>I', n) for 0 <= n < 2^31.
PackSize(n) ==
  <<n \div 16777216, (n \div 65536) % 256, (n \div 256) % 256, n % 256>>

\* dc42_parts (lines 115-149).  The two checksum parts are kept as the byte
\* strings _compute_dc42_checksum is given: data, and tags[12:].
dc42_parts(floppy, d, t) ==
  [name          |-> ImageName,
   data_size     |-> PackSize(DATA_SIZE[floppy]),
   tag_size      |-> PackSize(TAG_SIZE[floppy]),
   data_checksum |-> [checksum_of |-> d],
   tag_checksum  |-> [checksum_of |-> Slice(t, 12, t.len)],
   disk_type     |-> DISK_TYPE[floppy],
   format_byte   |-> FORMAT_BYTE[floppy],
   magic         |-> DC42_MAGIC,
   data          |-> d,
   tags          |-> t]

\* Lines 115-152.
MainWrite ==
  /\ pc = "write"
  /\ written' = Append(written, dc42_parts(FLAGS.floppy, data, tags))
  /\ pc' = "done"
  /\ stages' = Append(stages, "write")
  /\ UNCHANGED <<FLAGS, bootloader_data, program_data, program_size,
                 program_checksum, data, tags, asm, warned, raised, arg, res>>

-----------------------------------------------------------------------------
(* The runs of main: the inputs *)

\* The largest program of the runs of main fills this many sectors (and one
\* more byte).
MaxProgSectors == 2

\* The tag files of the runs of main have at most this many lines.
MaxTagLines == 2

\* A file of n > Len(s) bytes: s, then zero bytes, then a last byte 1.
FileOf(s, n) == Cat(Cat(FromSeq(s), Zeros(n - 1 - Len(s))), FromSeq(<<1>>))

Sig4f07 == <<79, 7>>
Sig7fff == <<127, 255, 0, 0>>
Sig7ffe == <<127, 254, 0, 0>>
Sig0f1f == <<15, 31, 47, 63, 255>>
Sig2d0e == <<45, 14>>
Sig030a == <<3, 10, 16, 22, 28, 34, 41, 255>>

Boot400 == Sig4f07 \o <<1>> \o Sig7fff \o <<1>> \o Sig0f1f
Boot800 == Sig4f07 \o <<1>> \o Sig7ffe \o <<1>> \o Sig0f1f
BootTwiggy == Sig2d0e \o <<1>> \o Sig7ffe \o <<1>> \o Sig030a
BootBothSony == Sig4f07 \o Sig7fff \o Sig7ffe \o Sig0f1f
\* Two of the three signatures of sony_400k.
BootPartial == Sig4f07 \o <<1>> \o Sig7fff
\* The zero padding completes the signature 7f fe 00 00.
BootTail == Sig4f07 \o Sig0f1f \o <<127, 254>>
\* The bytes of a signature, but not next to each other.
BootSplit == Sig4f07 \o Sig0f1f \o <<127, 255, 0, 1, 0>>

BootloaderFiles ==
  {NoBytes, FromSeq(Boot400), FromSeq(Boot800), FromSeq(BootTwiggy),
   FromSeq(BootBothSony), FromSeq(BootPartial), FromSeq(BootTail),
   FromSeq(BootSplit), FileOf(Boot400, 512), FileOf(Boot800, 513)}

\* A file of n bytes, zero but for its first byte, the last byte of its first
\* word-aligned pair and its last byte.
ProgramOf(n) ==
  [len |-> n,
   nz  |-> [i \in {j \in {0, 3, n - 1} : j >= 0 /\ j < n} |->
              IF i = n - 1 THEN 205 ELSE 171 + i]]

ProgramSizes(floppy) ==
  {0, 1} \cup {512 * k + e : k \in 1..MaxProgSectors, e \in {0, 1}}
         \cup {DATA_SIZE[floppy] - 512 + 1}

\* 'LOAD 1/2?\n'
LineValid == <<76, 79, 65, 68, 32, 49, 47, 50, 63, 10>>
\* 'A-B\r\n'
LineHyphen == <<65, 45, 66, 13, 10>>
\* '0123456789ABC\n': 13 characters
LineLong == <<48, 49, 50, 51, 52, 53, 54, 55, 56, 57, 65, 66, 67, 10>>

SeqsUpTo(S, n) == UNION {[1..k -> S] : k \in 0..n}

\* No tags file, the files of up to MaxTagLines lines, each a valid line or
\* one with a hyphen, and two files with a line of 13 characters.
TagFiles ==
  {[kind |-> "None", lines |-> <<>>, pos |-> 0]} \cup
  {[kind |-> "file", lines |-> l, pos |-> 0] :
     l \in SeqsUpTo({LineValid, LineHyphen}, MaxTagLines)
           \cup {<<LineLong>>, <<LineValid, LineLong>>}}

NoAsm == [program_size |-> 0, tags |-> <<>>]

NoFlags == [floppy |-> "sony_400k", bootloader |-> NoBytes,
            program |-> NoBytes,
            tags_file |-> [kind |-> "None", lines |-> <<>>, pos |-> 0]]

\* main's locals before main assigns them, and the run's records.
FreshLocals ==
  /\ bootloader_data = NoBytes
  /\ program_data = NoBytes
  /\ program_size = 0
  /\ program_checksum = <<>>
  /\ data = NoBytes
  /\ tags = NoBytes
  /\ asm = NoAsm
  /\ warned = <<>>
  /\ raised = "none"
  /\ written = <<>>
  /\ stages = <<>>

NoCall == arg = <<>> /\ res = <<>>

Init ==
  /\ pc = "load_bootloader"
  /\ \E floppy \in Floppies, b \in BootloaderFiles, t \in TagFiles :
       \E n \in ProgramSizes(floppy) :
         FLAGS = [floppy |-> floppy, bootloader |-> b,
                  program |-> ProgramOf(n), tags_file |-> t]
  /\ FreshLocals
  /\ NoCall

Next ==
  \/ MainLoadBootloader
  \/ MainCheckCompat
  \/ MainLoadProgram
  \/ MainProgramChecksum
  \/ MainConcat
  \/ AssembleTagsBegin
  \/ AssembleTagsLoop
  \/ AssembleTagsEnd
  \/ MainPermute
  \/ MainWrite

Spec == Init /\ [][Next]_vars

-----------------------------------------------------------------------------
(* Properties of the runs of main *)

\* The k-th 12-byte tag (k = 0, 1, ...) of the tag data t.
TagAt(t, k) == [i \in 1..12 |-> At(t, 12 * k + i - 1)]

IsTerminalTag(tag) == SubSeq(tag, 1, 10) = LastOut

\* The warnings of the compatibility check among those issued.
CompatWarnings == SelectSeq(warned, LAMBDA w : w.msg # "clipped")

\* C3 as stated: when _assemble_tags has returned for a program of 1024
\* bytes, 2 lines have been read from the tag source and the terminal tag is
\* the 4th tag of the stream.
C3_AsStated ==
  (pc = "permute" /\ program_size = 1024) =>
    /\ FLAGS.tags_file.pos = 2
    /\ IsTerminalTag(TagAt(tags, 3))

\* C3, amended: when _assemble_tags has returned for a program of 1024 bytes,
\* exactly 1 line has been read from the tag source, and the tag stream is the
\* boot tag, 1 content tag, and the terminal tag as the 3rd tag.
C3_OneContentTag ==
  (pc = "permute" /\ program_size = 1024) =>
    /\ FLAGS.tags_file.pos = 1
    /\ TagAt(tags, 0) = BootTag
    /\ ~IsTerminalTag(TagAt(tags, 1))
    /\ TagAt(tags, 1) # BootTag
    /\ IsTerminalTag(TagAt(tags, 2))
    /\ Len(asm.tags) = 3

C3_Witness == pc = "permute" /\ program_size = 1024 /\ IsTerminalTag(TagAt(tags, 2))

\* The bytes of d as a sequence, and the occurrence of a signature in it as
\* a run of adjacent bytes.
BytesOf(d) == [i \in 1..d.len |-> At(d, i - 1)]

Occurs(signature, s) ==
  \E i \in 1..(Len(s) - Len(signature) + 1) :
    SubSeq(s, i, i + Len(signature) - 1) = signature

\* The variants all of whose signatures occur in the loaded bootloader.
Classes ==
  LET s == BytesOf(bootloader_data)
  IN  {m \in Floppies : \A g \in BOOTLOADER_SIGNATURES[m] : Occurs(g, s)}

\* C5 as stated: a bootloader classified sony_400k draws no mismatch warning
\* for the target sony_800k, and one classified sony_800k draws one for the
\* target sony_400k.
C5_AsStated ==
  pc = "load_program" =>
    /\ (Classes = {"sony_400k"} /\ FLAGS.floppy = "sony_800k")
         => CompatWarnings = <<>>
    /\ (Classes = {"sony_800k"} /\ FLAGS.floppy = "sony_400k")
         => CompatWarnings = <<MismatchWarning("sony_800k", "sony_400k")>>

\* C5, amended: the table is directional the other way round.  A bootloader
\* classified sony_800k draws no warning for the target sony_400k, and one
\* classified sony_400k draws the mismatch warning for the target sony_800k.
C5_Directional ==
  pc = "load_program" =>
    /\ (Classes = {"sony_800k"} /\ FLAGS.floppy = "sony_400k")
         => CompatWarnings = <<>>
    /\ (Classes = {"sony_400k"} /\ FLAGS.floppy = "sony_800k")
         => CompatWarnings = <<MismatchWarning("sony_400k", "sony_800k")>>

C5_Witness ==
  /\ pc = "load_program"
  /\ Classes = {"sony_400k"}
  /\ FLAGS.floppy = "sony_800k"
  /\ Len(CompatWarnings) = 1

\* C6: once the check has run, it has issued exactly one of: the
\* unknown-bootloader warning alone, when 0 or at least 2 variants match; the
\* mismatch warning alone, when exactly one variant matches and the table
\* does not list it for the target; nothing, when exactly one matches and the
\* table lists it.  The run has not failed in the check and goes on to load
\* the program.
C6_ExactlyOneOutcome ==
  (pc \in {"load_program", "done"}) =>
    /\ raised = "none"
    /\ IF Cardinality(Classes) # 1
         THEN CompatWarnings = <<UnknownWarning>>
       ELSE LET m == CHOOSE c \in Classes : TRUE
            IN  IF m \notin BOOTLOADER_COMPATIBILITIES[FLAGS.floppy]
                  THEN CompatWarnings = <<MismatchWarning(m, FLAGS.floppy)>>
                ELSE CompatWarnings = <<>>

\* Both Sony signature sets occur: the unknown-bootloader warning, and the
\* image is built all the same.
C6_Witness ==
  /\ pc = "done"
  /\ Classes = {"sony_400k", "sony_800k"}
  /\ CompatWarnings = <<UnknownWarning>>
  /\ Len(written) = 1

AllStages ==
  <<"load_bootloader", "check_compat", "load_program", "program_checksum",
    "concat", "assemble_tags", "permute", "write">>

\* C10: the output is written at most once, and only by the last stage, after
\* all the others have completed in the stated order without an exception;
\* a run that raised has written nothing; a run whose bootloader or program
\* file is empty or too large writes nothing.
C10_WriteLastOrNever ==
  /\ Len(written) <= 1
  /\ stages = SubSeq(AllStages, 1, Len(stages))
  /\ written # <<>> => (raised = "none" /\ stages = AllStages /\ pc = "done")
  /\ pc = "done" => Len(written) = 1
  /\ raised # "none" => (written = <<>> /\ pc = "raised")
  /\ pc = "raised" => raised # "none"
  /\ (FLAGS.bootloader.len = 0 \/ FLAGS.bootloader.len > 512) => written = <<>>
  /\ (FLAGS.program.len = 0
        \/ FLAGS.program.len > DATA_SIZE[FLAGS.floppy] - 512) => written = <<>>

\* A run that failed in the tag stage, after five completed stages, with
\* nothing written.
C10_Witness ==
  /\ pc = "raised"
  /\ raised = "IOError:tags"
  /\ stages = SubSeq(AllStages, 1, 5)
  /\ written = <<>>

-----------------------------------------------------------------------------
(* _read_binary_data called on its own *)

\* The small capacities run from 1 to MaxReadSize; the files read are up to
\* two bytes longer than the capacity.
MaxReadSize == 3

ReadBytes == {0, 7, 255}

\* The capacities main uses: 0x200 and, per floppy, the data size less 0x200.
MainReadSizes == {512} \cup {DATA_SIZE[f] - 512 : f \in Floppies}

ReadCalls ==
  {[fp |-> FromSeq(s), size |-> size] :
     s \in SeqsUpTo(ReadBytes, MaxReadSize + 2), size \in 1..MaxReadSize}
  \cup
  {[fp |-> ProgramOf(n), size |-> size] :
     n \in UNION {{0, 1, size - 1, size, size + 1, size + 2} :
                    size \in MainReadSizes},
     size \in MainReadSizes}

InitRead ==
  /\ pc = "call_read_binary_data"
  /\ arg \in ReadCalls
  /\ res = <<>>
  /\ FLAGS = NoFlags
  /\ FreshLocals

CallReadBinaryData ==
  /\ pc = "call_read_binary_data"
  /\ res' = read_binary_data(arg.fp, arg.size)
  /\ pc' = "returned"
  /\ UNCHANGED <<arg, mainvars>>

SpecRead == InitRead /\ [][CallReadBinaryData]_vars

\* C1: _read_binary_data fails with the empty-input error when the source has
\* no bytes, fails with the oversize error when it has more than size bytes,
\* and otherwise returns size bytes, the source's bytes followed by zero bytes
\* only, with the source's length.  (The bytes of the result are the source's
\* and then zero exactly when the nonzero bytes of the two are the same.)
C1_ThreeOutcomes ==
  pc = "returned" =>
    LET n == arg.fp.len
    IN  /\ n = 0 => res.raised = "IOError:empty"
        /\ n > arg.size => res.raised = "IOError:oversize"
        /\ (1 <= n /\ n <= arg.size) =>
             /\ res.raised = "none"
             /\ res.size = n
             /\ res.data.len = arg.size
             /\ res.data.nz = arg.fp.nz
             /\ \A i \in DOMAIN res.data.nz : i < n

\* A program that fills the sony_400k capacity exactly is accepted.
C1_Witness ==
  /\ pc = "returned"
  /\ arg.size = 409088
  /\ arg.fp.len = 409088
  /\ res.raised = "none"
  /\ At(res.data, 409087) = 205

-----------------------------------------------------------------------------
(* _read_next_tag called on its own *)

\* The lines read have up to MaxLineLen characters before the line ending.
MaxLineLen == 2

\* - : A a 0 space . / ? CR @ [ and the comma
LineChars == {45, 58, 65, 97, 48, 32, 46, 47, 63, 13, 64, 91, 44}

\* A line as readline returns it: the characters, none of them a newline,
\* and the line ending; the last line of a file may lack it.
RawLines ==
  {b \o e : b \in SeqsUpTo(LineChars, MaxLineLen), e \in {<<10>>, <<13, 10>>}}
  \cup (SeqsUpTo(LineChars, MaxLineLen) \ {<<>>})
  \cup {LineLong, LineValid}

TagCalls ==
  {[fp |-> [kind |-> "file", lines |-> <<l>>, pos |-> 0]] : l \in RawLines}
  \cup {[fp |-> [kind |-> "file", lines |-> <<>>, pos |-> 0]]}
  \cup {[fp |-> [kind |-> "DefaultTags", lines |-> <<>>, pos |-> n]] :
          n \in 0..MaxLineLen}

InitTagLine ==
  /\ pc = "call_read_next_tag"
  /\ arg \in TagCalls
  /\ res = <<>>
  /\ FLAGS = NoFlags
  /\ FreshLocals

CallReadNextTag ==
  /\ pc = "call_read_next_tag"
  /\ res' = read_next_tag(arg.fp)
  /\ pc' = "returned"
  /\ UNCHANGED <<arg, mainvars>>

SpecTagLine == InitTagLine /\ [][CallReadNextTag]_vars

\* The characters the claim and the docstring of _read_next_tag allow:
\* A-Z, 0-9, the space and . / - ?
DocumentedTagChar(c) ==
  c \in 65..90 \/ c \in 48..57 \/ c \in {32, 46, 47, 45, 63}

\* C4: a line that was read fails with the invalid-character error if and
\* only if, once its CR and LF are trimmed off its right end, one of its
\* characters is outside A-Z, 0-9, space, . / - ?
C4_DocumentedCharset ==
  (pc = "returned" /\ res.raised # "IOError:tags") =>
    LET tag == rstrip_crlf(readline(arg.fp).line)
    IN  (res.raised = "RuntimeError:chars")
          <=> (\E k \in 1..Len(tag) : ~DocumentedTagChar(tag[k]))

-----------------------------------------------------------------------------
(* _assemble_tags called on its own: the run starts at the call in main's  *)
(* line 108, with any program size and checksum.                           *)

\* The program sizes around the first sectors, and for DefaultTags, which
\* never runs out of lines, around the floppy's capacity too.
AssembleSizes(floppy, fp) ==
  {0, 1, 2} \cup {512 * k + e : k \in 1..MaxProgSectors, e \in {-1, 0, 1}}
  \cup (IF fp.kind = "DefaultTags"
          THEN {DATA_SIZE[floppy] - 1024, DATA_SIZE[floppy] - 512}
        ELSE {})

AssembleTagSources ==
  {DefaultTags} \cup
  {[kind |-> "file", lines |-> l, pos |-> 0] :
     l \in SeqsUpTo({LineValid, LineHyphen, LineLong}, MaxTagLines)}

InitAssemble ==
  /\ pc = "assemble_tags"
  /\ \E floppy \in Floppies, fp \in AssembleTagSources :
       /\ FLAGS = [NoFlags EXCEPT !.floppy = floppy, !.tags_file = fp]
       /\ program_size \in AssembleSizes(floppy, fp)
  /\ program_checksum \in {<<0, 0>>, <<18, 52>>}
  /\ bootloader_data = NoBytes
  /\ program_data = NoBytes
  /\ data = NoBytes
  /\ tags = NoBytes
  /\ asm = NoAsm
  /\ warned = <<>>
  /\ raised = "none"
  /\ written = <<>>
  /\ stages = <<>>
  /\ NoCall

NextAssemble == AssembleTagsBegin \/ AssembleTagsLoop \/ AssembleTagsEnd

SpecAssemble == InitAssemble /\ [][NextAssemble]_vars

\* C2: whenever _assemble_tags returns for a program no larger than the
\* floppy's capacity (its data size less 512), the tags it built fit in the
\* floppy's tag size and the tag data returned has exactly that length.
C2_TagDataLength ==
  (pc = "permute" /\ program_size <= DATA_SIZE[FLAGS.floppy] - 512) =>
    /\ 12 * Len(asm.tags) <= TAG_SIZE[FLAGS.floppy]
    /\ tags.len = TAG_SIZE[FLAGS.floppy]

\* A twiggy program of full capacity: its tags fill the tag data exactly.
C2_Witness ==
  /\ pc = "permute"
  /\ FLAGS.floppy = "twiggy"
  /\ program_size = 870912
  /\ 12 * Len(asm.tags) = 20424
  /\ tags.len = 20424

\* The lines a program of s >= 1 bytes needs: one for each of its sectors
\* but the last.
LinesNeeded(s) == ((s + 511) \div 512) - 1

\* The k-th line (k = 1, 2, ...) of the tag source fp as it was before any
\* read; <<>> when the source has no such line.
SourceLine(fp, k) ==
  IF fp.kind = "DefaultTags"
    THEN <<82, 69, 65, 68, 32>> \o DecimalDigits(k \div 2) \o <<46>>
           \o (IF k % 2 = 1 THEN <<53>> ELSE <<48>>) \o <<75, 10>>
  ELSE IF k <= Len(fp.lines) THEN fp.lines[k]
  ELSE <<>>

\* The source has at least n lines.
Yields(fp, n) == fp.kind = "DefaultTags" \/ n <= Len(fp.lines)

\* A line without its line ending, cut or filled with spaces to 12 bytes.
ContentTagOf(line) ==
  LET body == SelectSeq(line, LAMBDA c : c \notin {13, 10})
  IN  [i \in 1..12 |-> IF i <= Len(body) THEN body[i] ELSE 32]

\* Every character of the line but its line ending is one the code accepts.
ValidLine(line) ==
  \A i \in 1..Len(line) : line[i] \in {13, 10} \/ InTagClass(line[i])

\* The lines the assembly would pull from the source are all valid.
PulledLinesValid(fp, n) ==
  \A k \in 1..n : SourceLine(fp, k) # <<>> => ValidLine(SourceLine(fp, k))

\* C11: for a program of s >= 1 bytes, _assemble_tags never reads more than
\* ceil(s/512) - 1 lines from the tag source; when the lines it would pull are
\* valid it ends with the ran-out-of-tags IOError exactly when the source has
\* fewer lines than that, and otherwise returns having read exactly that many
\* lines, with the tag data made of the boot tag, the content tag of line k
\* as the k-th tag after it, the terminal tag ('Last out!', NUL, the 2-byte
\* checksum) right after the last content tag, and zero bytes from there on.
C11_TagLinesPulled ==
  LET s  == program_size
      n  == LinesNeeded(s)
      fp == [FLAGS.tags_file EXCEPT !.pos = 0]
  IN  (s >= 1 /\ pc \in {"assemble_loop", "permute", "raised"}) =>
        /\ FLAGS.tags_file.pos <= n
        /\ (pc = "raised" /\ PulledLinesValid(fp, n)) =>
             /\ raised = "IOError:tags"
             /\ ~Yields(fp, n)
             /\ FLAGS.tags_file.pos = Len(fp.lines)
        /\ (pc = "permute" /\ PulledLinesValid(fp, n)) =>
             /\ raised = "none"
             /\ Yields(fp, n)
        /\ pc = "permute" =>
             /\ FLAGS.tags_file.pos = n
             /\ TagAt(tags, 0) = BootTag
             /\ \A k \in 1..n : TagAt(tags, k) = ContentTagOf(SourceLine(fp, k))
             /\ TagAt(tags, n + 1) = LastOut \o program_checksum
             /\ \A i \in DOMAIN tags.nz : i < 12 * (n + 2)

\* A program of 2 sectors and 1 byte needs 2 lines; the source has 1, which
\* is read, and the second read ends the run.
C11_Witness ==
  /\ pc = "raised"
  /\ raised = "IOError:tags"
  /\ program_size = 1025
  /\ FLAGS.tags_file.kind = "file"
  /\ FLAGS.tags_file.lines = <<LineValid>>
  /\ FLAGS.tags_file.pos = 1
  /\ Len(asm.tags) = 2

-----------------------------------------------------------------------------
(* The permutation on its own: the run starts at main's line 111 with data *)
(* and tags of the floppy's sizes; arg keeps them as they were.            *)

\* The geometry as the claim states it: 5 zones of 16 tracks with 12, 11, 10,
\* 9 and 8 sectors per track.  SectorsBefore(t) is the number of sectors of
\* one side in the tracks before track t (t = 0..80).
SectorsBefore(t) ==
  LET z == t \div 16
      r == t % 16
  IN  16 * (12 * z - (z * (z - 1)) \div 2) + r * (12 - z)

\* Where the byte at offset p of a side-contiguous buffer belongs in the
\* interleaved one; u is 512 for data and 12 for tags.
Interleaved(p, u) ==
  LET side2 == u * SectorsBefore(80)
      s == IF p >= side2 THEN 1 ELSE 0
      q == p - s * side2
      t == CHOOSE x \in 0..79 :
             u * SectorsBefore(x) <= q /\ q < u * SectorsBefore(x + 1)
  IN  u * (2 * SectorsBefore(t) + s * (SectorsBefore(t + 1) - SectorsBefore(t)))
        + (q - u * SectorsBefore(t))

\* One nonzero byte, the first or the last of a track of a side, in a buffer
\* of n bytes.
Probe(n, u, s, t, last) ==
  LET p == s * u * SectorsBefore(80)
             + (IF last THEN u * SectorsBefore(t + 1) - 1
                ELSE u * SectorsBefore(t))
  IN  [len |-> n, nz |-> [i \in {p} |-> 1 + (2 * t + s)]]

\* A nonzero byte, set by its sector's number, at the start of every track
\* of both sides that lies in a buffer of n bytes.
ProbeAll(n, u) ==
  LET ps == {s * u * SectorsBefore(80) + u * SectorsBefore(t) :
               s \in 0..1, t \in 0..79} \cap 0..(n - 1)
  IN  [len |-> n, nz |-> [i \in ps |-> 1 + ((i \div u) % 251)]]

PermuteCalls(floppy) ==
  {[data |-> Probe(DATA_SIZE[floppy], 512, s, t, last),
    tags |-> Probe(TAG_SIZE[floppy], 12, s, t, last)] :
     s \in {x \in 0..1 : DATA_SIZE[floppy] >= (x + 1) * 409600},
     t \in 0..79, last \in BOOLEAN}
  \cup {[data |-> ProbeAll(DATA_SIZE[floppy], 512),
         tags |-> ProbeAll(TAG_SIZE[floppy], 12)]}

InitPermute ==
  /\ pc = "permute"
  /\ \E floppy \in Floppies :
       /\ FLAGS = [NoFlags EXCEPT !.floppy = floppy]
       /\ arg \in PermuteCalls(floppy)
  /\ data = arg.data
  /\ tags = arg.tags
  /\ res = <<>>
  /\ bootloader_data = NoBytes
  /\ program_data = NoBytes
  /\ program_size = 0
  /\ program_checksum = <<>>
  /\ asm = NoAsm
  /\ warned = <<>>
  /\ raised = "none"
  /\ written = <<>>
  /\ stages = <<>>

SpecPermute == InitPermute /\ [][MainPermute]_vars

\* The slices with the bounds b, taken side 1 first and then side 2, tile
\* a buffer of n bytes: each starts where the one before ends.
Tiles(b, n) ==
  LET tracks == Len(b) \div 2
      bySide == [k \in 1..Len(b) |->
                   IF k <= tracks THEN b[2 * k - 1] ELSE b[2 * (k - tracks)]]
  IN  /\ Len(b) = 160
      /\ bySide[1][1] = 0
      /\ bySide[Len(b)][2] = n
      /\ \A k \in 1..Len(b) : bySide[k][1] < bySide[k][2]
      /\ \A k \in 1..(Len(b) - 1) : bySide[k][2] = bySide[k + 1][1]

\* The buffer out holds the bytes of the buffer in, each where Interleaved
\* puts it, and nothing else.
IsInterleaved(in, out, u) ==
  /\ out.len = in.len
  /\ DOMAIN out.nz = {Interleaved(p, u) : p \in DOMAIN in.nz}
  /\ Cardinality(DOMAIN out.nz) = Cardinality(DOMAIN in.nz)
  /\ \A p \in DOMAIN in.nz : out.nz[Interleaved(p, u)] = in.nz[p]

\* C7: for sony_800k, main's permutation puts side 1 of track t and then side
\* 2 of track t, for t = 0..79, and what it does is a bijection on the byte
\* positions: the slices it takes tile the input, the output is as long as
\* the input, and every byte of the input is in the output once, at the
\* place the geometry gives.  For sony_400k and twiggy, data and tags are
\* left as they were.
C7_PermutationBijective ==
  pc = "write" =>
    IF FLAGS.floppy = "sony_800k"
      THEN /\ Tiles(data_bounds, 819200)
           /\ Tiles(tags_bounds, 19200)
           /\ data.len = 819200
           /\ tags.len = 19200
           /\ IsInterleaved(arg.data, data, 512)
           /\ IsInterleaved(arg.tags, tags, 12)
    ELSE data = arg.data /\ tags = arg.tags

\* The last byte of side 2 of track 0 ends the first pair of tracks.
C7_Witness ==
  /\ pc = "write"
  /\ FLAGS.floppy = "sony_800k"
  /\ DOMAIN arg.data.nz = {409600 + 6143}
  /\ DOMAIN data.nz = {12287}
  /\ DOMAIN arg.tags.nz = {9600 + 143}
  /\ DOMAIN tags.nz = {287}

-----------------------------------------------------------------------------
(* _compute_program_checksum called on its own *)

ChecksumOffsets ==
  {0, 1} \cup {512 * k + e : k \in 1..MaxProgSectors, e \in {-2, -1, 0, 1}}

\* Data of one sector more than MaxProgSectors, zero but for up to two bytes
\* at the ends of the sectors.
ChecksumData ==
  {[len |-> 512 * (MaxProgSectors + 1), nz |-> [i \in ps |-> v]] :
     ps \in {q \in SUBSET ChecksumOffsets : Cardinality(q) <= 2},
     v \in {1, 255}}

ChecksumSizes ==
  {0, 1, 2} \cup {512 * k + e : k \in 1..MaxProgSectors, e \in {-1, 0}}
            \cup {512 * k + 1 : k \in 1..(MaxProgSectors - 1)}

InitProgramChecksum ==
  /\ pc = "call_compute_program_checksum"
  /\ arg \in {[data |-> d, size |-> n] : d \in ChecksumData, n \in ChecksumSizes}
  /\ res = <<>>
  /\ FLAGS = NoFlags
  /\ FreshLocals

CallComputeProgramChecksum ==
  /\ pc = "call_compute_program_checksum"
  /\ res' = compute_program_checksum(arg.data, arg.size)
  /\ pc' = "returned"
  /\ UNCHANGED <<arg, mainvars>>

SpecProgramChecksum ==
  InitProgramChecksum /\ [][CallComputeProgramChecksum]_vars

\* The claim's checksum: from acc, over the words at offsets 2*lo, ...,
\* 2*(hi-1) of d, acc := the 16-bit left rotation by 1 of (acc + w) mod 2^16.
RotateLeft16(x) == ((2 * x) % 65536) + (x \div 32768)

RECURSIVE RotateAdd16(_, _, _, _)
RotateAdd16(d, lo, hi, acc) ==
  IF lo >= hi THEN acc
  ELSE IF hi = lo + 1
    THEN RotateLeft16((acc + 256 * At(d, 2 * lo) + At(d, 2 * lo + 1)) % 65536)
  ELSE LET mid   == (lo + hi) \div 2
           first == RotateAdd16(d, lo, mid, acc)
       IN  IF first >= 0 THEN RotateAdd16(d, mid, hi, first) ELSE first

\* size rounded up to the next multiple of 512.
Extent(size) == 512 * ((size + 511) \div 512)

\* C8: the checksum is the rotate-and-add, from 0, of the big-endian words in
\* the first Extent(size) bytes of the data, as two big-endian bytes; the
\* bytes beyond the extent do not change it; and it is 0 when the bytes
\* within the extent are all zero.
C8_ProgramChecksum ==
  pc = "returned" =>
    LET e   == Extent(arg.size)
        sum == RotateAdd16(arg.data, 0, e \div 2, 0)
    IN  /\ res.raised = "none"
        /\ res.value = <<sum \div 256, sum % 256>>
        /\ res.value =
             compute_program_checksum(Slice(arg.data, 0, e), arg.size).value
        /\ (\A i \in DOMAIN arg.data.nz : i >= e) => res.value = <<0, 0>>
        /\ arg.size = 0 => e = 0
        /\ arg.size % 512 = 0 => e = arg.size

\* A program that ends inside its second sector, with a byte at the end of
\* that sector, which counts, and one in the next sector, which does not.
C8_Witness ==
  /\ pc = "returned"
  /\ arg.size = 513
  /\ DOMAIN arg.data.nz = {1023, 1024}
  /\ res.value # <<0, 0>>

-----------------------------------------------------------------------------
(* _compute_dc42_checksum called on its own, on a buffer and on the buffer *)
(* with one bit flipped.                                                   *)

\* The buffers have up to MaxDc42Words words.
MaxDc42Words == 2

Dc42Bytes == {0, 129, 255}

\* The byte b with bit j (0 the lowest) flipped.
FlipBit(b, j) ==
  LET w == 2 ^ j
  IN  IF (b \div w) % 2 = 1 THEN b - w ELSE b + w

\* The sequence s of bytes with bit k flipped, bit 0 being the highest bit of
\* the first byte.
FlipAt(s, k) ==
  [s EXCEPT ![(k \div 8) + 1] = FlipBit(@, 7 - (k % 8))]

InitDc42 ==
  /\ pc = "call_compute_dc42_checksum"
  /\ \E n \in 1..MaxDc42Words :
       \E s \in [1..(2 * n) -> Dc42Bytes], k \in 0..(16 * n - 1) :
         arg = [data |-> FromSeq(s), flipped |-> FromSeq(FlipAt(s, k)), bit |-> k]
  /\ res = <<>>
  /\ FLAGS = NoFlags
  /\ FreshLocals

CallComputeDc42Checksum ==
  /\ pc = "call_compute_dc42_checksum"
  /\ res' = [data    |-> compute_dc42_checksum(arg.data),
             flipped |-> compute_dc42_checksum(arg.flipped)]
  /\ pc' = "returned"
  /\ UNCHANGED <<arg, mainvars>>

SpecDc42 == InitDc42 /\ [][CallComputeDc42Checksum]_vars

\* The claim's checksum.  A 32-bit accumulator is [hi, lo], its upper and
\* its lower 16 bits.  Add32 is (acc + w) mod 2^32 for a 16-bit w, and
\* RotateRight32 moves every bit one place down and the lowest bit to the top.
Add32(acc, w) ==
  [hi |-> (acc.hi + (acc.lo + w) \div 65536) % 65536,
   lo |-> (acc.lo + w) % 65536]

RotateRight32(acc) ==
  [hi |-> (acc.lo % 2) * 32768 + acc.hi \div 2,
   lo |-> (acc.hi % 2) * 32768 + acc.lo \div 2]

\* The accumulator after the first n words of d.
RECURSIVE RotateAdd32(_, _)
RotateAdd32(d, n) ==
  IF n = 0 THEN [hi |-> 0, lo |-> 0]
  ELSE RotateRight32(Add32(RotateAdd32(d, n - 1),
                           256 * At(d, 2 * n - 2) + At(d, 2 * n - 1)))

\* The four big-endian bytes of an accumulator.
BigEndian32(acc) ==
  <<acc.hi \div 256, acc.hi % 256, acc.lo \div 256, acc.lo % 256>>

\* C9: the checksum of a buffer of even length is the rotate-and-add, from 0,
\* of its big-endian words (acc := the 32-bit right rotation by 1 of
\* (acc + w) mod 2^32), and the buffer with any one bit flipped has another
\* checksum.
C9_SingleBitFlip ==
  pc = "returned" =>
    /\ res.data.raised = "none"
    /\ res.flipped.raised = "none"
    /\ res.data.value =
         BigEndian32(RotateAdd32(arg.data, arg.data.len \div 2))
    /\ res.data.value # res.flipped.value

\* The highest bit of the first word of 81 00 ff ff is flipped.
C9_Witness ==
  /\ pc = "returned"
  /\ arg.bit = 0
  /\ arg.data = FromSeq(<<129, 0, 255, 255>>)
  /\ arg.flipped = FromSeq(<<1, 0, 255, 255>>)
  /\ res.data.value # res.flipped.value

-----------------------------------------------------------------------------
(* The image: the run of main from its line 108 on, with the bootloader    *)
(* and a program of up to the floppy's capacity loaded and concatenated,   *)
(* and any program checksum.                                               *)

\* A program file of n bytes: nonzero in its first and its last byte and
\* in the first byte of every track of either side of the disk that it
\* reaches, zero elsewhere.
ProgramProbe(n) ==
  LET starts == {s * 409600 + 512 * SectorsBefore(t) - 512 :
                   s \in 0..1, t \in 0..79}
  IN  [len |-> n,
       nz  |-> [i \in (starts \cup {0, n - 1}) \cap 0..(n - 1) |->
                  1 + ((i \div 512) % 251)]]

\* Programs of one sector and less, of two sectors, up to the end of side 1
\* of a Sony disk and one byte more, and of the floppy's capacity.
ImageProgramSizes(floppy) ==
  {n \in {1, 512, 513, 1024, 409088, 409089, DATA_SIZE[floppy] - 512} :
     n <= DATA_SIZE[floppy] - 512}

ImageBootloaders == {FromSeq(Boot800), FileOf(Boot400, 512)}

ImageTagSources ==
  {DefaultTags, [kind |-> "file", lines |-> <<LineValid, LineLong>>, pos |-> 0]}

InitImage ==
  /\ pc = "assemble_tags"
  /\ \E floppy \in Floppies, b \in ImageBootloaders, t \in ImageTagSources :
       \E n \in ImageProgramSizes(floppy) :
         /\ FLAGS = [floppy |-> floppy, bootloader |-> b,
                     program |-> ProgramProbe(n), tags_file |-> t]
         /\ bootloader_data = read_binary_data(b, 512).data
         /\ program_data =
              read_binary_data(ProgramProbe(n), DATA_SIZE[floppy] - 512).data
         /\ program_size = n
  /\ program_checksum = <<18, 52>>
  /\ data = Cat(bootloader_data, program_data)
  /\ tags = NoBytes
  /\ asm = NoAsm
  /\ warned = <<>>
  /\ raised = "none"
  /\ written = <<>>
  /\ stages = <<"load_bootloader", "check_compat", "load_program",
                "program_checksum", "concat">>
  /\ NoCall

NextImage ==
  \/ AssembleTagsBegin
  \/ AssembleTagsLoop
  \/ AssembleTagsEnd
  \/ MainPermute
  \/ MainWrite

SpecImage == InitImage /\ [][NextImage]_vars

\* The bootloader file followed by zero bytes up to 512.
PaddedBootloader ==
  [len |-> 512, nz |-> FLAGS.bootloader.nz]

\* The bytes of b from offset k on.
From(b, k) ==
  [len |-> b.len - k,
   nz  |-> [i \in {j - k : j \in {x \in DOMAIN b.nz : x >= k}} |->
              b.nz[i + k]]]

\* C12: in the image written for any floppy, sony_800k with its permutation
\* included, the first 512 bytes of the data are the bootloader padded with
\* zeros, the first 12 bytes of the tags are the boot tag, with 0xAA in
\* bytes 4 and 5, the data checksum is taken over all the data written, and
\* the tag checksum over all the tags written but those first 12 bytes.
C12_BootSectorStaysFirst ==
  pc = "done" =>
    LET w == written[1]
    IN  /\ Len(written) = 1
        /\ w.data.len = DATA_SIZE[FLAGS.floppy]
        /\ w.tags.len = TAG_SIZE[FLAGS.floppy]
        /\ \A i \in 0..511 : At(w.data, i) = At(PaddedBootloader, i)
        /\ TagAt(w.tags, 0) = BootTag
        /\ At(w.tags, 4) = 170 /\ At(w.tags, 5) = 170
        /\ w.data_checksum.checksum_of = w.data
        /\ w.tag_checksum.checksum_of = From(w.tags, 12)

\* A sony_800k image of full capacity: the permutation has brought the first
\* sector and the first tag of side 2 next to the 12 sectors of track 0 of
\* side 1, and the boot sector and its tag are where they were.
C12_Witness ==
  /\ pc = "done"
  /\ FLAGS.floppy = "sony_800k"
  /\ program_size = 818688
  /\ At(program_data, 409600 - 512) # 0
  /\ At(written[1].data, 6144) = At(program_data, 409600 - 512)
  /\ TagAt(written[1].tags, 12) = asm.tags[801]
  /\ TagAt(written[1].tags, 12) # TagAt(written[1].tags, 0)
  /\ TagAt(written[1].tags, 0) = BootTag
  /\ At(written[1].data, 0) = 79

====
